---------------------------- MODULE Spec2Model ----------------------------
(***************************************************************************)
(* A model of the coin-tax calculator page (src/src/app/page.tsx): the     *)
(* trade list and its handlers, the CSV import pipeline (line splitting,   *)
(* tokenizer, column mapping, number/date/type normalisation), and the tax *)
(* aggregation.                                                            *)
(*                                                                         *)
(* Text is a sequence of one-character strings, so that the tokenizer and  *)
(* the parsers are computed character by character as the code does.       *)
(* A JavaScript number is a decimal floating-point value (mantissa and     *)
(* exponent, Precision significant digits, round-half-up), or NaN, or      *)
(* +/-Infinity; values beyond Number.MAX_VALUE overflow to Infinity.       *)
(* Negative zero is not distinguished from zero.                           *)
(***************************************************************************)
EXTENDS Integers, Sequences, FiniteSets, TLC

(***************************************************************************)
(* Text                                                                    *)
(***************************************************************************)
\* A string literal as the sequence of its characters.
Chars(s) == [i \in 1..Len(s) |-> SubSeq(s, i, i)]

Digits == <<"0", "1", "2", "3", "4", "5", "6", "7", "8", "9">>
DigitChars == {Digits[i] : i \in 1..10}
DigitVal(c) == (CHOOSE i \in 1..10 : Digits[i] = c) - 1

Upper == Chars("ABCDEFGHIJKLMNOPQRSTUVWXYZ")
Lower == Chars("abcdefghijklmnopqrstuvwxyz")
UpperChars == {Upper[i] : i \in 1..26}

\* String.prototype.toLowerCase, on the characters the model uses.
lowerChar(c) == IF c \in UpperChars THEN Lower[CHOOSE i \in 1..26 : Upper[i] = c] ELSE c
toLowerCase(s) == [i \in 1..Len(s) |-> lowerChar(s[i])]

\* The white space String.prototype.trim and parseFloat strip.
WhiteChars == {" ", "\t", "\n", "\r", "\f"}

RECURSIVE trimStart(_)
trimStart(s) == IF s # <<>> /\ Head(s) \in WhiteChars THEN trimStart(Tail(s)) ELSE s

RECURSIVE trimEnd(_)
trimEnd(s) ==
    IF s # <<>> /\ s[Len(s)] \in WhiteChars THEN trimEnd(SubSeq(s, 1, Len(s) - 1)) ELSE s

trim(s) == trimEnd(trimStart(s))

\* String.prototype.includes
includes(s, sub) == \E i \in 1..(Len(s) - Len(sub) + 1) : SubSeq(s, i, i + Len(sub) - 1) = sub

\* String.prototype.slice(0, n)
slice0(s, n) == SubSeq(s, 1, IF Len(s) < n THEN Len(s) ELSE n)

startsWith(s, p) == Len(s) >= Len(p) /\ SubSeq(s, 1, Len(p)) = p

\* value.replace(/,/g, "")
RECURSIVE removeCommas(_)
removeCommas(s) ==
    IF s = <<>> THEN <<>>
    ELSE IF Head(s) = "," THEN removeCommas(Tail(s))
    ELSE <<Head(s)>> \o removeCommas(Tail(s))

\* text.split(/\r?\n/): the pieces between consecutive line breaks, a line
\* break being "\n" or "\r\n".
lineBreaks(text) == {i \in 1..Len(text) : text[i] = "\n"}
nthBreak(nl, k) == CHOOSE p \in nl : Cardinality({q \in nl : q < p}) = k - 1
lineFirst(nl, k) == IF k = 1 THEN 1 ELSE nthBreak(nl, k - 1) + 1
lineEnd(text, from, brk) == IF brk > from /\ text[brk - 1] = "\r" THEN brk - 2 ELSE brk - 1
lineLast(text, nl, k) ==
    IF k = Cardinality(nl) + 1 THEN Len(text)
    ELSE lineEnd(text, lineFirst(nl, k), nthBreak(nl, k))
splitLinesAt(text, nl) ==
    [k \in 1..(Cardinality(nl) + 1) |-> SubSeq(text, lineFirst(nl, k), lineLast(text, nl, k))]
splitLines(text) == splitLinesAt(text, lineBreaks(text))

(***************************************************************************)
(* Numbers                                                                 *)
(***************************************************************************)
\* Significant decimal digits a finite number keeps (a double keeps about 16).
Precision == 4
\* Number.MAX_VALUE = 1.797...e308 and Number.MIN_VALUE = 5e-324.
MaxExp10 == 308
MaxLead == 1797
MinExp10 == -324

NaN == [k |-> "nan", m |-> 0, e |-> 0]
Infinity == [k |-> "inf", m |-> 1, e |-> 0]
NegInfinity == [k |-> "inf", m |-> -1, e |-> 0]
Zero == [k |-> "fin", m |-> 0, e |-> 0]

Abs(n) == IF n < 0 THEN -n ELSE n
Sign(n) == IF n < 0 THEN -1 ELSE IF n > 0 THEN 1 ELSE 0
Inf(s) == IF s < 0 THEN NegInfinity ELSE Infinity

RECURSIVE NumDigits(_)
NumDigits(n) == IF n < 10 THEN 1 ELSE 1 + NumDigits(n \div 10)

RECURSIVE StripZeros(_, _)
StripZeros(m, e) ==
    IF m # 0 /\ m % 10 = 0 THEN StripZeros(m \div 10, e + 1) ELSE [m |-> m, e |-> e]

\* Round the magnitude m to Precision digits, half up: d digits are dropped.
RoundBy(m, e, d) ==
    IF d <= 0 THEN [m |-> m, e |-> e]
    ELSE [m |-> (m + 5 * 10^(d - 1)) \div 10^d, e |-> e + d]
RoundMag(m, e) == RoundBy(m, e, NumDigits(m) - Precision)

\* top is the decimal exponent of the leading digit and lead the first
\* Precision digits: beyond Number.MAX_VALUE the value is infinite, below
\* Number.MIN_VALUE it is 0.
InRange(s, m, e, top, lead) ==
    IF top > MaxExp10 \/ (top = MaxExp10 /\ lead > MaxLead) THEN Inf(s)
    ELSE IF top < MinExp10 THEN Zero
    ELSE [k |-> "fin", m |-> s * m, e |-> e]
Ranged(s, z, digits) == InRange(s, z.m, z.e, digits + z.e - 1, z.m * 10^(Precision - digits))
Stripped(s, z) == Ranged(s, z, NumDigits(z.m))
Rounded(s, r) == Stripped(s, StripZeros(r.m, r.e))

\* The number s * m * 10^e (s a sign, m >= 0) as the nearest representable
\* value: rounded, overflowing to Infinity, underflowing to 0.
Norm(s, m, e) == IF m = 0 \/ s = 0 THEN Zero ELSE Rounded(s, RoundMag(m, e))

Num(m, e) == Norm(Sign(m), Abs(m), e)

isFinite(x) == x.k = "fin"
isNaN(x) == x.k = "nan"

fNeg(x) == IF x.k = "nan" THEN x ELSE [x EXCEPT !.m = -x.m]

fMul(a, b) ==
    IF a.k = "nan" \/ b.k = "nan" THEN NaN
    ELSE IF a.k = "inf" \/ b.k = "inf"
         THEN IF a.m = 0 \/ b.m = 0 THEN NaN ELSE Inf(Sign(a.m) * Sign(b.m))
    ELSE Norm(Sign(a.m) * Sign(b.m), Abs(a.m) * Abs(b.m), a.e + b.e)

fDiv(a, b) ==
    IF a.k = "nan" \/ b.k = "nan" THEN NaN
    ELSE IF a.k = "inf" THEN IF b.k = "inf" THEN NaN
                             ELSE Inf(Sign(a.m) * (IF b.m < 0 THEN -1 ELSE 1))
    ELSE IF b.k = "inf" THEN Zero
    ELSE IF b.m = 0 THEN IF a.m = 0 THEN NaN ELSE Inf(Sign(a.m))
    ELSE Norm(Sign(a.m) * Sign(b.m),
              (Abs(a.m) * 10^(Precision + 1)) \div Abs(b.m),
              a.e - b.e - (Precision + 1))

Min(a, b) == IF a < b THEN a ELSE b

\* a.m * 10^a.e - b.m * 10^b.e in units of 10^lo, lo the smaller exponent.
AlignedDiff(a, b, lo) == a.m * 10^(a.e - lo) - b.m * 10^(b.e - lo)
AlignedSum(a, b, lo) == a.m * 10^(a.e - lo) + b.m * 10^(b.e - lo)

CmpTop(a, b, ta, tb) ==
    IF ta # tb THEN Sign(a.m) * Sign(ta - tb) ELSE Sign(AlignedDiff(a, b, Min(a.e, b.e)))

\* The sign of a - b for finite a and b, computed exactly.
CmpFin(a, b) ==
    IF a.m = 0 \/ b.m = 0 THEN Sign(a.m - b.m)
    ELSE IF Sign(a.m) # Sign(b.m) THEN Sign(a.m)
    ELSE CmpTop(a, b, NumDigits(Abs(a.m)) + a.e, NumDigits(Abs(b.m)) + b.e)

NormInt(sum, e) == Norm(Sign(sum), Abs(sum), e)

\* An addend more than Precision + 1 decimal places below the other is lost
\* in the rounding.
fAdd(a, b) ==
    IF a.k = "nan" \/ b.k = "nan" THEN NaN
    ELSE IF a.k = "inf" THEN IF b.k = "inf" /\ b.m # a.m THEN NaN ELSE a
    ELSE IF b.k = "inf" THEN b
    ELSE IF a.m = 0 THEN b
    ELSE IF b.m = 0 THEN a
    ELSE IF a.e - b.e > Precision + 1 THEN a
    ELSE IF b.e - a.e > Precision + 1 THEN b
    ELSE NormInt(AlignedSum(a, b, Min(a.e, b.e)), Min(a.e, b.e))

fSub(a, b) == fAdd(a, fNeg(b))

\* a > b, a <= b as JavaScript compares numbers: false when either is NaN.
fCmp(a, b) ==
    IF a.k = "inf" THEN IF b.k = "inf" THEN Sign(a.m - b.m) ELSE a.m
    ELSE IF b.k = "inf" THEN -b.m
    ELSE CmpFin(a, b)
fGt(a, b) == a.k # "nan" /\ b.k # "nan" /\ fCmp(a, b) > 0
fLe(a, b) == a.k # "nan" /\ b.k # "nan" /\ fCmp(a, b) <= 0

\* Math.max(a, b)
MathMax(a, b) == IF a.k = "nan" \/ b.k = "nan" THEN NaN ELSE IF fGt(b, a) THEN b ELSE a

RECURSIVE digitPrefix(_)
digitPrefix(s) ==
    IF s # <<>> /\ Head(s) \in DigitChars THEN <<Head(s)>> \o digitPrefix(Tail(s)) ELSE <<>>

RECURSIVE stripLeadingZeros(_)
stripLeadingZeros(ds) ==
    IF ds # <<>> /\ Head(ds) = "0" THEN stripLeadingZeros(Tail(ds)) ELSE ds

RECURSIVE digitsValue(_)
digitsValue(ds) ==
    IF ds = <<>> THEN 0 ELSE 10 * digitsValue(SubSeq(ds, 1, Len(ds) - 1)) + DigitVal(ds[Len(ds)])

\* Digits read into a mantissa before the rest only shift the exponent.
MantissaDigits == Precision + 4
\* An exponent's digits beyond this many only saturate it.
ExponentDigits == 6

dropFirst(s, n) == SubSeq(s, n + 1, Len(s))
takeFirst(s, n) == SubSeq(s, 1, Min(Len(s), n))

\* The exponent part of a decimal literal at the head of rest: e or E, an
\* optional sign and at least one digit; 0 when there is none.
exponentValue(neg, ds) ==
    IF ds = <<>> THEN 0
    ELSE (IF neg THEN -1 ELSE 1) *
         (IF Len(stripLeadingZeros(ds)) > ExponentDigits THEN 10^ExponentDigits
          ELSE digitsValue(stripLeadingZeros(ds)))
exponentSigned(t) ==
    IF t # <<>> /\ Head(t) \in {"-", "+"} THEN exponentValue(Head(t) = "-", digitPrefix(Tail(t)))
    ELSE exponentValue(FALSE, digitPrefix(t))
exponentPart(rest) ==
    IF rest # <<>> /\ Head(rest) \in {"e", "E"} THEN exponentSigned(Tail(rest)) ELSE 0

\* sig: the significant digits; fracLen: how many digits follow the point.
decimalValue(sgn, sig, fracLen, exp) ==
    Norm(sgn, digitsValue(takeFirst(sig, MantissaDigits)),
         exp - fracLen + (Len(sig) - Len(takeFirst(sig, MantissaDigits))))

decimalParts(sgn, int, frac, rest) ==
    IF int = <<>> /\ frac = <<>> THEN NaN
    ELSE decimalValue(sgn, stripLeadingZeros(int \o frac), Len(frac), exponentPart(rest))

decimalFraction(sgn, int, afterDot) ==
    decimalParts(sgn, int, digitPrefix(afterDot), dropFirst(afterDot, Len(digitPrefix(afterDot))))

decimalInteger(sgn, int, afterInt) ==
    IF afterInt # <<>> /\ Head(afterInt) = "." THEN decimalFraction(sgn, int, Tail(afterInt))
    ELSE decimalParts(sgn, int, <<>>, afterInt)

decimalLiteral(sgn, body) ==
    IF startsWith(body, Chars("Infinity")) THEN Inf(sgn)
    ELSE decimalInteger(sgn, digitPrefix(body), dropFirst(body, Len(digitPrefix(body))))

signedLiteral(t) ==
    IF t # <<>> /\ Head(t) \in {"-", "+"}
    THEN decimalLiteral(IF Head(t) = "-" THEN -1 ELSE 1, Tail(t))
    ELSE decimalLiteral(1, t)

\* Number.parseFloat: the longest prefix of the trimmed text that is a decimal
\* literal (sign, digits, fraction, exponent) or Infinity; NaN when there is none.
parseFloat(text) == signedLiteral(trimStart(text))

RECURSIVE digitsOf(_)
digitsOf(n) == IF n < 10 THEN <<Digits[n + 1]>> ELSE Append(digitsOf(n \div 10), Digits[(n % 10) + 1])

zeros(n) == [i \in 1..n |-> "0"]

\* The decimal text of the digits s (k of them) scaled so that n digits come
\* before the point.
digitsToString(s, k, n) ==
    IF k <= n /\ n <= 21 THEN s \o zeros(n - k)
    ELSE IF 0 < n /\ n <= 21 THEN SubSeq(s, 1, n) \o <<".">> \o SubSeq(s, n + 1, k)
    ELSE IF -6 < n /\ n <= 0 THEN Chars("0.") \o zeros(-n) \o s
    ELSE (IF k = 1 THEN s ELSE <<s[1], ".">> \o SubSeq(s, 2, k))
         \o <<"e", IF n - 1 < 0 THEN "-" ELSE "+">> \o digitsOf(Abs(n - 1))

magnitudeToString(s, e) == digitsToString(s, Len(s), Len(s) + e)

\* String(x) for a number x (Number::toString, radix 10).
NumberToString(x) ==
    IF x.k = "nan" THEN Chars("NaN")
    ELSE IF x.k = "inf" THEN (IF x.m < 0 THEN <<"-">> ELSE <<>>) \o Chars("Infinity")
    ELSE IF x.m = 0 THEN <<"0">>
    ELSE (IF x.m < 0 THEN <<"-">> ELSE <<>>) \o magnitudeToString(digitsOf(Abs(x.m)), x.e)

(***************************************************************************)
(* CSV import                                                              *)
(***************************************************************************)
\* The value of a missing cell; text never holds this element.
Undefined == <<"undefined">>

\* Hangul syllables are written as their code points, one element each.
Hangul(codes) == codes

\* One iteration of the tokenizer's loop at (1-based) position i. st holds the
\* loop's variables: current, insideQuotes, result, and skip, which is set when
\* the iteration before consumed this character too (its i++ before continue).
\* Faulty variant: a comma ends the field whether or not it is inside quotes.
parseCsvLineCharNoFlag(st, char, nextIsQuote) ==
    IF st.skip THEN [st EXCEPT !.skip = FALSE]
    ELSE IF char = "\"" /\ nextIsQuote
    THEN [st EXCEPT !.current = Append(@, "\""), !.skip = TRUE]
    ELSE IF char = "\""
    THEN [st EXCEPT !.insideQuotes = ~@]
    ELSE IF char = ","
    THEN [st EXCEPT !.result = Append(@, trim(st.current)), !.current = <<>>]
    ELSE [st EXCEPT !.current = Append(@, char)]

parseCsvLineChar(st, char, nextIsQuote) ==
    IF st.skip THEN [st EXCEPT !.skip = FALSE]
    ELSE IF char = "\"" /\ nextIsQuote
    THEN [st EXCEPT !.current = Append(@, "\""), !.skip = TRUE]
    ELSE IF char = "\""
    THEN [st EXCEPT !.insideQuotes = ~@]
    ELSE IF char = "," /\ ~st.insideQuotes
    THEN [st EXCEPT !.result = Append(@, trim(st.current)), !.current = <<>>]
    ELSE [st EXCEPT !.current = Append(@, char)]
parseCsvLineStep(line, st, i) ==
    parseCsvLineChar(st, line[i], i + 1 <= Len(line) /\ line[i + 1] = "\"")

\* The iterations lo..hi in order, from state st. The range is split in halves
\* and the first half is evaluated before the second starts, which keeps the
\* evaluation shallow; the result is that of running lo, lo+1, ..., hi.
RECURSIVE parseCsvLineLoop(_, _, _, _)
parseCsvLineRest(line, left, from, hi) ==
    IF left.skip \in BOOLEAN THEN parseCsvLineLoop(line, left, from, hi) ELSE left
parseCsvLineLoop(line, st, lo, hi) ==
    IF lo > hi THEN st
    ELSE IF lo = hi THEN parseCsvLineStep(line, st, lo)
    ELSE parseCsvLineRest(line, parseCsvLineLoop(line, st, lo, (lo + hi) \div 2),
                          (lo + hi) \div 2 + 1, hi)

parseCsvLineInit == [current |-> <<>>, insideQuotes |-> FALSE, result |-> <<>>, skip |-> FALSE]
parseCsvLineEnd(end) == Append(end.result, trim(end.current))
parseCsvLine(line) == parseCsvLineEnd(parseCsvLineLoop(line, parseCsvLineInit, 1, Len(line)))

parseCleaned(cleaned) == IF cleaned # <<>> THEN parseFloat(cleaned) ELSE NaN

normalizeNumber(value) ==
    IF value = Undefined \/ value = <<>> THEN NaN
    ELSE parseCleaned(trim(removeCommas(value)))

\* The day new Date().toISOString().slice(0, 10) gives.
Today == Chars("2025-06-15")

isLeap(y) == (y % 4 = 0 /\ y % 100 # 0) \/ y % 400 = 0
daysInMonth(y, m) ==
    IF m = 2 THEN (IF isLeap(y) THEN 29 ELSE 28)
    ELSE IF m \in {4, 6, 9, 11} THEN 30 ELSE 31

InvalidDate == [valid |-> FALSE, y |-> 0, m |-> 0, d |-> 0]

calendarDate(y, m, d) ==
    IF m \in 1..12 /\ d >= 1 /\ d <= daysInMonth(y, m)
    THEN [valid |-> TRUE, y |-> y, m |-> m, d |-> d]
    ELSE InvalidDate

\* new Date(value) for text in the date-only ISO form YYYY-MM-DD, which is read
\* as UTC midnight; any other text the model uses is an invalid date.
dateParse(value) ==
    IF /\ Len(value) = 10
       /\ value[5] = "-" /\ value[8] = "-"
       /\ \A i \in {1, 2, 3, 4, 6, 7, 9, 10} : value[i] \in DigitChars
    THEN calendarDate(digitsValue(SubSeq(value, 1, 4)), digitsValue(SubSeq(value, 6, 7)),
                      digitsValue(SubSeq(value, 9, 10)))
    ELSE InvalidDate

pad(n, width) == zeros(width - Len(digitsOf(n))) \o digitsOf(n)

\* parsed.toISOString().slice(0, 10)
isoDate(t) == pad(t.y, 4) \o <<"-">> \o pad(t.m, 2) \o <<"-">> \o pad(t.d, 2)

dateOrSlice(value, parsed) == IF parsed.valid THEN isoDate(parsed) ELSE slice0(value, 10)

normalizeDate(value) ==
    IF value = Undefined \/ value = <<>> THEN Today
    ELSE dateOrSlice(value, dateParse(value))

buyWords ==
    <<Hangul(<<"U+B9E4", "U+C218">>), Chars("bid"), Chars("buy"),
      Hangul(<<"U+C785", "U+AE08">>), Chars("deposit")>>

hasBuyWord(value) == \E w \in 1..Len(buyWords) : includes(value, buyWords[w])

\* Faulty variant: the cell is compared as written, not lower-cased.
toTradeTypeAsWritten(raw) ==
    IF hasBuyWord(IF raw = Undefined THEN <<>> ELSE raw) THEN "buy" ELSE "sell"

toTradeType(raw) ==
    IF hasBuyWord(toLowerCase(IF raw = Undefined THEN <<>> ELSE raw)) THEN "buy" ELSE "sell"

dateCandidates ==
    <<Chars("date"), Chars("time"), Chars("timestamp"), Hangul(<<"U+C77C", "U+C2DC">>),
      Hangul(<<"U+AC70", "U+B798", "U+C77C", "U+C2DC">>)>>
typeCandidates ==
    <<Chars("side"), Chars("type"), Chars("trade"), Hangul(<<"U+AD6C", "U+BD84">>),
      Hangul(<<"U+AC70", "U+B798", "U+C720", "U+D615">>)>>
amountCandidates ==
    <<Chars("amount"), Chars("qty"), Chars("quantity"), Chars("volume"),
      Hangul(<<"U+C218", "U+B7C9">>)>>
priceCandidates ==
    <<Chars("price"), Hangul(<<"U+AC00", "U+ACA9">>), Hangul(<<"U+B2E8", "U+AC00">>)>>
totalCandidates ==
    <<Chars("total"), Chars("amount(krw)"), Chars("krw"), Chars("fill total"),
      Hangul(<<"U+AC70", "U+B798", "U+AE08", "U+C561">>)>>

matchesAny(col, candidates) == \E c \in 1..Len(candidates) : includes(col, candidates[c])
firstOf(hits) == IF hits = {} THEN -1 ELSE (CHOOSE i \in hits : \A j \in hits : i <= j) - 1

\* header.findIndex(...): the 0-based index of the first header cell that
\* includes a candidate, or -1.
getColumnIndex(header, candidates) ==
    firstOf({i \in 1..Len(header) : matchesAny(header[i], candidates)})

getCell(cells, idx) == IF idx >= 0 /\ idx < Len(cells) THEN cells[idx + 1] ELSE Undefined

\* text.split(/\r?\n/).map(trim).filter(Boolean)
RECURSIVE trimmedNonBlank(_)
trimmedNonBlank(ls) ==
    IF ls = <<>> THEN <<>>
    ELSE (IF trim(Head(ls)) = <<>> THEN <<>> ELSE <<trim(Head(ls))>>) \o trimmedNonBlank(Tail(ls))

csvLines(text) == trimmedNonBlank(splitLines(text))

resolvedAmount(amount) == IF isFinite(amount) THEN amount ELSE NaN

\* Faulty variant: a price cell of 0 is taken as the price (>= in place of >).
resolvedPriceZeroOk(amount, price, total) ==
    IF isFinite(price) /\ ~fGt(Zero, price) THEN price
    ELSE IF isFinite(total) /\ isFinite(amount) /\ fGt(amount, Zero) THEN fDiv(total, amount)
    ELSE NaN

resolvedPrice(amount, price, total) ==
    IF isFinite(price) /\ fGt(price, Zero) THEN price
    ELSE IF isFinite(total) /\ isFinite(amount) /\ fGt(amount, Zero) THEN fDiv(total, amount)
    ELSE NaN

\* parsedTrades.push({...}) once the amount and the price are resolved, or the
\* continue that skips the line.
pushTrade(id, dateCell, typeCell, rAmount, rPrice) ==
    IF ~isFinite(rAmount) \/ ~isFinite(rPrice) THEN <<>>
    ELSE <<[id |-> id,
            date |-> normalizeDate(dateCell),
            type |-> toTradeType(typeCell),
            amount |-> rAmount,
            price |-> rPrice,
            amountInput |-> IF isFinite(rAmount) THEN NumberToString(rAmount) ELSE <<>>,
            priceInput |-> IF isFinite(rPrice) THEN NumberToString(rPrice) ELSE <<>>]>>

resolveRow(id, dateCell, typeCell, amount, price, total) ==
    pushTrade(id, dateCell, typeCell, resolvedAmount(amount), resolvedPrice(amount, price, total))

\* idx: the column index of each field, found once from the header.
rowOfCells(idx, cells, id) ==
    IF Len(cells) = 0 THEN <<>>
    ELSE resolveRow(id, getCell(cells, idx.date), getCell(cells, idx.type),
                    normalizeNumber(getCell(cells, idx.amount)),
                    normalizeNumber(getCell(cells, idx.price)),
                    normalizeNumber(getCell(cells, idx.total)))

\* The body of the loop over data lines: the Trade a line gives (in a
\* one-element sequence), or nothing when the line is skipped.
parseRow(idx, line, id) == rowOfCells(idx, parseCsvLine(line), id)

columnIndexes(header) ==
    [date |-> getColumnIndex(header, dateCandidates),
     type |-> getColumnIndex(header, typeCandidates),
     amount |-> getColumnIndex(header, amountCandidates),
     price |-> getColumnIndex(header, priceCandidates),
     total |-> getColumnIndex(header, totalCandidates)]

\* The loop for (i = 1; i < lines.length; i++) from its (1-based) line i on;
\* ids are handed out in order from firstId, one per trade pushed.
RECURSIVE parseRows(_, _, _, _)
pushedThenRest(idx, lines, i, firstId, got) ==
    got \o parseRows(idx, lines, i + 1, firstId + Len(got))
parseRows(idx, lines, i, firstId) ==
    IF i > Len(lines) THEN <<>>
    ELSE pushedThenRest(idx, lines, i, firstId, parseRow(idx, lines[i], firstId))

lowerCells(cols) == [c \in 1..Len(cols) |-> toLowerCase(cols[c])]

parseLines(lines, firstId) ==
    IF Len(lines) < 2 THEN <<>>
    ELSE parseRows(columnIndexes(lowerCells(parseCsvLine(lines[1]))), lines, 2, firstId)

parseCsvToTrades(text, firstId) == parseLines(csvLines(text), firstId)

(***************************************************************************)
(* Tax aggregation                                                         *)
(***************************************************************************)
BASIC_DEDUCTION == Num(2500000, 0)
TAX_RATE == Num(22, -2)

\* The reducer of totals: one trade folded into the accumulator.
addGross(acc, type, gross) ==
    IF type = "buy" THEN [acc EXCEPT !.totalBuy = fAdd(@, gross)]
    ELSE [acc EXCEPT !.totalSell = fAdd(@, gross)]
totalsStep(acc, trade) == addGross(acc, trade.type, fMul(trade.amount, trade.price))

\* list.reduce(totalsStep, {totalBuy: 0, totalSell: 0}), over the first n trades.
RECURSIVE totalsReduce(_, _)
totalsReduce(list, n) ==
    IF n = 0 THEN [totalBuy |-> Zero, totalSell |-> Zero]
    ELSE totalsStep(totalsReduce(list, n - 1), list[n])

totalsOfTax(sums, profit, taxable) ==
    [totalBuy |-> sums.totalBuy, totalSell |-> sums.totalSell,
     profit |-> profit, taxable |-> taxable, tax |-> fMul(taxable, TAX_RATE)]
\* Faulty variant: the taxable base without its floor at 0.
totalsOfProfitNoFloor(sums, profit) == totalsOfTax(sums, profit, fSub(profit, BASIC_DEDUCTION))

totalsOfProfit(sums, profit) ==
    totalsOfTax(sums, profit, MathMax(Zero, fSub(profit, BASIC_DEDUCTION)))
totalsOfSums(sums) == totalsOfProfit(sums, fSub(sums.totalSell, sums.totalBuy))

\* The useMemo value totals, for the list it is computed from.
totals(list) == totalsOfSums(totalsReduce(list, Len(list)))

\* Faulty variant: the floor at 0 applied whatever the sign of the profit.
netAfterTaxFloored(t) == MathMax(Zero, fSub(t.profit, t.tax))

netAfterTax(t) ==
    IF fGt(t.profit, Zero) THEN MathMax(Zero, fSub(t.profit, t.tax)) ELSE t.profit

\* Which of the two result sentences is shown.
resultLine(t) == IF fLe(t.profit, Zero) THEN "zeroTax" ELSE "estimatedTax"

\* What the summary cards show for totals t.
summaryOf(t) ==
    [totalBuy |-> t.totalBuy, totalSell |-> t.totalSell, profit |-> t.profit,
     taxable |-> t.taxable, tax |-> t.tax, netAfterTax |-> netAfterTax(t),
     resultLine |-> resultLine(t)]
summary(list) == summaryOf(totals(list))

(***************************************************************************)
(* The page: state and handlers                                            *)
(***************************************************************************)
VARIABLES
    trades,          \* useState<Trade[]>: the committed trade list
    deferredTrades,  \* useDeferredValue(trades): the list totals are computed from
    importMessage,   \* useState<string | null>
    reading,         \* contents of the files whose FileReader has not fired onload yet
    downloaded,      \* text of the template file the user has downloaded, if any
    nextId,          \* stands for crypto.randomUUID(): the next unused id
    steps,           \* number of events handled so far
    last,            \* the update of the trade list requested last, and the list it found
    log,             \* every update of the trade list requested so far, oldest first
    arg,             \* input of the pure function under check
    res              \* its result

vars == <<trades, deferredTrades, importMessage, reading, downloaded, nextId, steps, last,
          log, arg, res>>
pageVars ==
    <<trades, deferredTrades, importMessage, reading, downloaded, nextId, steps, last, log>>

\* Bounds of the model.
MaxTrades == 3
MaxReads == 2
MaxSteps == 3

\* res before and after the function under check is applied.
NoResult == [done |-> FALSE, out |-> <<>>]
Result(out) == [done |-> TRUE, out |-> out]

\* importMessage values.
NoMessage == [kind |-> "null", count |-> 0]
NoRowsMessage == [kind |-> "noRows", count |-> 0]
AddedMessage(n) == [kind |-> "added", count |-> n]

createEmptyTrade(id) ==
    [id |-> id, date |-> Today, type |-> "buy", amount |-> Zero, price |-> Zero,
     amountInput |-> <<>>, priceInput |-> <<>>]

\* The text handleDownloadTemplate puts in the blob: in the source each line
\* ends with the two characters backslash and n ("\\n" in the string literal).
templateCsv ==
    Chars("date,type,amount,price\\n") \o
    Chars("2025-01-01,buy,1,500000\\n") \o
    Chars("2025-01-02,sell,0.5,600000\\n")

\* Texts typed into the amount and price fields.
AmountTexts == {Chars("2"), Chars("-1"), Chars("abc"), Chars("1e999")}
PriceTexts == {Chars("3000000"), Chars("Infinity"), <<>>}
DateValues == {Chars("2025-01-31")}

\* Files on the user's disk, besides the downloaded template.
FileHeaderOnly == Chars("date,type,amount,price\n")
FileEmpty == <<>>
FileMixed ==
    Chars("Fill Total,Quantity,Side\n\"1,000,000\",2,BUY\n5,0,sell\n1e308,0.01,buy\n7,2\n")
\* A header whose cells would themselves read as a data row.
FileNumericHeader == Chars("3 qty,4 price\n1,2\n")
DiskFiles == {FileHeaderOnly, FileEmpty, FileMixed, FileNumericHeader}

Event(op, id, text) == [op |-> op, id |-> id, text |-> text, prev |-> trades]

PageInit ==
    /\ trades = <<createEmptyTrade(1)>>
    /\ deferredTrades = trades
    /\ importMessage = NoMessage
    /\ reading = <<>>
    /\ downloaded = Undefined
    /\ nextId = 2
    /\ steps = 0
    /\ last = [op |-> "init", id |-> 0, text |-> <<>>, prev |-> <<>>]
    /\ log = <<>>

Init ==
    /\ PageInit
    /\ arg = Undefined
    /\ res = NoResult

\* An event that leaves the trade list alone.
Tick ==
    /\ steps < MaxSteps
    /\ steps' = steps + 1
    /\ UNCHANGED <<last, log, arg, res>>

\* An event that requests an update of the trade list.
Step(op, id, text) ==
    /\ steps < MaxSteps
    /\ steps' = steps + 1
    /\ last' = Event(op, id, text)
    /\ log' = Append(log, Event(op, id, text))
    /\ UNCHANGED <<arg, res>>

\* prev.map: the trade with the given id is replaced by its updated copy.
mapTrades(list, id, updated) ==
    [i \in 1..Len(list) |-> IF list[i].id = id THEN updated[i] ELSE list[i]]

handleDownloadTemplate ==
    /\ downloaded' = templateCsv
    /\ Tick
    /\ UNCHANGED <<trades, deferredTrades, importMessage, reading, nextId>>

\* The two uses of handleTradeChange: the date input and the type select.
handleTradeChange(id, key, value) ==
    /\ trades' = mapTrades(trades, id,
                           [i \in 1..Len(trades) |->
                               IF key = "date" THEN [trades[i] EXCEPT !.date = value]
                               ELSE [trades[i] EXCEPT !.type = value]])
    /\ Step(key, id, IF key = "date" THEN value ELSE Chars(value))
    /\ UNCHANGED <<deferredTrades, importMessage, reading, downloaded, nextId>>

\* Faulty variant: only NaN is replaced, as with Number.isNaN in place of Number.isFinite.
nanOrZero(parsed) == IF isNaN(parsed) THEN Zero ELSE parsed

finiteOrZero(parsed) == IF isFinite(parsed) THEN parsed ELSE Zero

amountOf(value) == finiteOrZero(parseFloat(value))

handleAmountChange(id, value) ==
    /\ trades' = mapTrades(trades, id,
                           [i \in 1..Len(trades) |->
                               [trades[i] EXCEPT !.amountInput = value,
                                                 !.amount = amountOf(value)]])
    /\ Step("amount", id, value)
    /\ UNCHANGED <<deferredTrades, importMessage, reading, downloaded, nextId>>

priceOf(value) == finiteOrZero(parseFloat(value))

handlePriceChange(id, value) ==
    /\ trades' = mapTrades(trades, id,
                           [i \in 1..Len(trades) |->
                               [trades[i] EXCEPT !.priceInput = value,
                                                 !.price = priceOf(value)]])
    /\ Step("price", id, value)
    /\ UNCHANGED <<deferredTrades, importMessage, reading, downloaded, nextId>>

handleAddTrade ==
    /\ Len(trades) < MaxTrades
    /\ trades' = Append(trades, createEmptyTrade(nextId))
    /\ nextId' = nextId + 1
    /\ Step("add", nextId, <<>>)
    /\ UNCHANGED <<deferredTrades, importMessage, reading, downloaded>>

\* Faulty variant: the filter without the guard on a one-row list.
deleteTradeUnguarded(prev, id) == SelectSeq(prev, LAMBDA t : t.id # id)

deleteTrade(prev, id) ==
    IF Len(prev) = 1 THEN prev ELSE SelectSeq(prev, LAMBDA t : t.id # id)

handleDeleteTrade(id) ==
    /\ trades' = deleteTrade(trades, id)
    /\ Step("delete", id, <<>>)
    /\ UNCHANGED <<deferredTrades, importMessage, reading, downloaded, nextId>>

\* A file is chosen and its read starts; with no file chosen nothing happens.
handleFileSelect(file) ==
    /\ Len(reading) < MaxReads
    /\ reading' = IF file = Undefined THEN reading ELSE Append(reading, file)
    /\ Tick
    /\ UNCHANGED <<trades, deferredTrades, importMessage, downloaded, nextId>>

removeAt(seq, k) == SubSeq(seq, 1, k - 1) \o SubSeq(seq, k + 1, Len(seq))

\* Faulty variant: no early return when nothing was parsed.
importCompletedNoReturn(k, content, importedTrades) ==
    /\ Len(trades) + Len(importedTrades) <= MaxTrades
    /\ reading' = removeAt(reading, k)
    /\ trades' = trades \o importedTrades
    /\ importMessage' = AddedMessage(Len(importedTrades))
    /\ nextId' = nextId + Len(importedTrades)
    /\ Step("import", 0, content)
    /\ UNCHANGED <<deferredTrades, downloaded>>

\* Faulty variant: the imported trades are put before the list, not after it.
importCompletedPrepend(k, content, importedTrades) ==
    /\ Len(trades) + Len(importedTrades) <= MaxTrades
    /\ reading' = removeAt(reading, k)
    /\ IF Len(importedTrades) = 0
       THEN /\ importMessage' = NoRowsMessage
            /\ UNCHANGED <<trades, nextId>>
       ELSE /\ trades' = importedTrades \o trades
            /\ importMessage' = AddedMessage(Len(importedTrades))
            /\ nextId' = nextId + Len(importedTrades)
    /\ Step("import", 0, content)
    /\ UNCHANGED <<deferredTrades, downloaded>>

\* Faulty variant: the imported trades are put after the list as it was when the
\* first update was requested, not after the list the update finds.
importCompletedStaleList(k, content, importedTrades) ==
    /\ Len(trades) + Len(importedTrades) <= MaxTrades
    /\ reading' = removeAt(reading, k)
    /\ IF Len(importedTrades) = 0
       THEN /\ importMessage' = NoRowsMessage
            /\ UNCHANGED <<trades, nextId>>
       ELSE /\ trades' = (IF Len(log) = 0 THEN trades ELSE log[1].prev) \o importedTrades
            /\ importMessage' = AddedMessage(Len(importedTrades))
            /\ nextId' = nextId + Len(importedTrades)
    /\ Step("import", 0, content)
    /\ UNCHANGED <<deferredTrades, downloaded>>

\* reader.onload with the trades parsed from the content read.
importCompleted(k, content, importedTrades) ==
    /\ Len(trades) + Len(importedTrades) <= MaxTrades
    /\ reading' = removeAt(reading, k)
    /\ IF Len(importedTrades) = 0
       THEN /\ importMessage' = NoRowsMessage
            /\ UNCHANGED <<trades, nextId>>
       ELSE /\ trades' = trades \o importedTrades
            /\ importMessage' = AddedMessage(Len(importedTrades))
            /\ nextId' = nextId + Len(importedTrades)
    /\ Step("import", 0, content)
    /\ UNCHANGED <<deferredTrades, downloaded>>

\* reader.onload of the k-th read in flight: reads complete in any order.
readerOnload(k) == importCompleted(k, reading[k], parseCsvToTrades(reading[k], nextId))

\* Faulty variant: the deferred render shows the list before the last update.
deferredUpdateStale ==
    /\ deferredTrades # trades
    /\ deferredTrades' = last.prev
    /\ UNCHANGED <<trades, importMessage, reading, downloaded, nextId, steps, last, log,
                   arg, res>>

\* React renders the deferred value: deferredTrades catches up with trades.
deferredUpdate ==
    /\ deferredTrades # trades
    /\ deferredTrades' = trades
    /\ UNCHANGED <<trades, importMessage, reading, downloaded, nextId, steps, last, log,
                   arg, res>>

\* Faulty variant: totalBuy is read from the committed list, the rest from the
\* deferred one.
displayedMixed ==
    [summary(deferredTrades) EXCEPT !.totalBuy = totals(trades).totalBuy]

\* The figures of the summary cards: totals is memoized on deferredTrades, and
\* resultLine and netAfterTax are computed from it in the same render.
displayed == summary(deferredTrades)

\* The ids of the rows shown, which the row's inputs and button pass on.
RowIds == {trades[i].id : i \in 1..Len(trades)}
\* Every id handed out so far, and one that never was.
Ids == 1..nextId

Next ==
    \/ handleDownloadTemplate
    \/ \E id \in RowIds, value \in DateValues : handleTradeChange(id, "date", value)
    \/ \E id \in RowIds, value \in {"buy", "sell"} : handleTradeChange(id, "type", value)
    \/ \E id \in RowIds, value \in AmountTexts : handleAmountChange(id, value)
    \/ \E id \in RowIds, value \in PriceTexts : handlePriceChange(id, value)
    \/ handleAddTrade
    \/ \E id \in Ids : handleDeleteTrade(id)
    \/ \E file \in DiskFiles \cup {downloaded} : handleFileSelect(file)
    \/ \E k \in 1..Len(reading) : readerOnload(k)
    \/ deferredUpdate

Spec == Init /\ [][Next]_vars

\* React does not leave a pending deferred render undone for ever.
SpecLive == Init /\ [][Next]_vars /\ WF_vars(deferredUpdate)

\* The page with two files chosen and both reads still in flight.
FileDated == Chars("date,side,qty,price\n2025-03-04,buy,3,10\n")
InitInterleave ==
    /\ trades = <<createEmptyTrade(1)>>
    /\ deferredTrades = trades
    /\ importMessage = NoMessage
    /\ reading = <<FileNumericHeader, FileDated>>
    /\ downloaded = Undefined
    /\ nextId = 2
    /\ steps = 0
    /\ last = [op |-> "init", id |-> 0, text |-> <<>>, prev |-> <<>>]
    /\ log = <<>>
    /\ arg = Undefined
    /\ res = NoResult

\* The updates of the trade list, in any order, each edit with one value.
NextInterleave ==
    \/ \E id \in RowIds, value \in DateValues : handleTradeChange(id, "date", value)
    \/ \E id \in RowIds : handleTradeChange(id, "type", "sell")
    \/ \E id \in RowIds : handleAmountChange(id, Chars("2"))
    \/ \E id \in RowIds : handlePriceChange(id, Chars("3000000"))
    \/ handleAddTrade
    \/ \E id \in Ids : handleDeleteTrade(id)
    \/ \E k \in 1..Len(reading) : readerOnload(k)

SpecInterleave == InitInterleave /\ [][NextInterleave]_vars

(***************************************************************************)
(* The pure functions, each applied to inputs drawn from a bounded set     *)
(***************************************************************************)
SeqsUpTo(S, n) == UNION {[1..k -> S] : k \in 0..n}

\* --- parseCsvLine ---
MaxLineLen == 4
ExampleCommaInQuotes == Chars("a,\"b,c\",d")
ExampleDoubledQuote == Chars("a,\"b\"\"c\",d")
ExampleSpaces == Chars(" a , \" b, \" ,c ")
ExampleEmptyQuoted == Chars("a,\"\",b")
TokLines ==
    SeqsUpTo({"a", ",", "\"", " "}, MaxLineLen)
        \cup {ExampleCommaInQuotes, ExampleDoubledQuote, ExampleSpaces, ExampleEmptyQuoted}

InitTok == PageInit /\ arg \in TokLines /\ res = NoResult

tokenize ==
    /\ ~res.done
    /\ res' = Result(parseCsvLine(arg))
    /\ UNCHANGED <<arg, pageVars>>

NextTok == tokenize

SpecTok == InitTok /\ [][NextTok]_vars

\* --- toTradeType ---
MaxTypeLen == 3
TypeCells ==
    SeqsUpTo({"b", "B", "i", "d", "u", "y", "U+B9E4", "U+C218"}, MaxTypeLen)
        \cup {Undefined, Chars("SELL"), Chars("sell"), Chars("Deposit"), Chars("ask"),
              Hangul(<<"U+C785", "U+AE08">>), Hangul(<<"U+B9E4", "U+B3C4">>),
              Chars("Market BUY")}

InitType == PageInit /\ arg \in TypeCells /\ res = NoResult

classify ==
    /\ ~res.done
    /\ res' = Result(toTradeType(arg))
    /\ UNCHANGED <<arg, pageVars>>

NextType == classify

SpecType == InitType /\ [][NextType]_vars

\* --- parseCsvToTrades on one header line and one data line ---
MaxCols == 3

Cell(text, val) == [text |-> Chars(text), val |-> val]
Cols(role, names, cells) ==
    {[role |-> role, name |-> Chars(n), text |-> c.text, val |-> c.val] : n \in names, c \in cells}

\* Each cell is given with the number its text stands for.
AmountCells == {Cell("2", Num(2, 0)), Cell("0", Zero), Cell("abc", NaN), Cell("0.01", Num(1, -2))}
PriceCells == {Cell("500", Num(500, 0)), Cell("0", Zero), Cell("x", NaN)}
TotalCells == {Cell("\"1,000\"", Num(1000, 0)), Cell("1e308", Num(1, 308)), Cell("", NaN)}
AllCols ==
    Cols("amount", {"Quantity", "amount"}, AmountCells)
        \cup Cols("price", {"price"}, PriceCells)
        \cup Cols("total", {"Fill Total", "amount(krw)"}, TotalCells)
        \cup Cols("type", {"Side"}, {Cell("BUY", NaN)})
        \cup Cols("date", {"date"},
                  {Cell("2025-01-02", NaN), Cell("soon", NaN), Cell("sometime later", NaN)})

CsvCases ==
    {c \in SeqsUpTo(AllCols, MaxCols) :
        Len(c) >= 1 /\ \A i, j \in 1..Len(c) : i # j => c[i].role # c[j].role}

RECURSIVE joinCells(_)
joinCells(cells) ==
    IF Len(cells) = 0 THEN <<>>
    ELSE IF Len(cells) = 1 THEN cells[1]
    ELSE cells[1] \o <<",">> \o joinCells(Tail(cells))

\* The file of a case: its header line and its data line.
CsvOf(c) ==
    joinCells([i \in 1..Len(c) |-> c[i].name]) \o <<"\n">>
        \o joinCells([i \in 1..Len(c) |-> c[i].text]) \o <<"\n">>

InitCsv == PageInit /\ arg \in CsvCases /\ res = NoResult

importCase ==
    /\ ~res.done
    /\ res' = Result(parseCsvToTrades(CsvOf(arg), 1))
    /\ UNCHANGED <<arg, pageVars>>

NextCsv == importCase

SpecCsv == InitCsv /\ [][NextCsv]_vars

\* --- totals and netAfterTax ---
MaxList == 2

AmountValues == {Zero, Num(1, 0), Num(5, -1), Num(-2, 0), Num(1, 200)}
PriceValues == {Num(5, 5), Num(6, 5), Num(1, 7), Num(1, 200)}
TradeValues ==
    {[type |-> t, amount |-> a, price |-> p] :
        t \in {"buy", "sell"}, a \in AmountValues, p \in PriceValues}

\* The trade list with the given types, amounts and prices.
tradeList(vs) ==
    [i \in 1..Len(vs) |->
        [createEmptyTrade(i) EXCEPT !.type = vs[i].type, !.amount = vs[i].amount,
                                    !.price = vs[i].price]]

TradeLists == {tradeList(vs) : vs \in SeqsUpTo(TradeValues, MaxList)}

InitTotals == PageInit /\ arg \in TradeLists /\ res = NoResult

computeTotals ==
    /\ ~res.done
    /\ res' = Result(summary(arg))
    /\ UNCHANGED <<arg, pageVars>>

NextTotals == computeTotals

SpecTotals == InitTotals /\ [][NextTotals]_vars
(***************************************************************************)
(* Properties                                                              *)
(***************************************************************************)
\* The type, amount and price of each trade of a list.
Figures(list) ==
    [i \in 1..Len(list) |->
        [type |-> list[i].type, amount |-> list[i].amount, price |-> list[i].price]]
Fig(type, amount, price) == [type |-> type, amount |-> amount, price |-> price]

\* The trades the last import put after the list it found.
Appended == SubSeq(trades, Len(last.prev) + 1, Len(trades))

\* The number of lines of a text that hold something other than white space.
NonBlankLineCount(text) ==
    Cardinality({p \in {0} \cup {i \in 1..Len(text) : text[i] = "\n"} :
        \E i \in (p + 1)..Len(text) :
            /\ text[i] \notin WhiteChars
            /\ \A j \in (p + 1)..i : text[j] # "\n"})

\* C1: the trade list always holds at least one trade, and a delete requested
\* while it holds exactly one leaves it as it was.
C1_ListNeverEmpty ==
    /\ Len(trades) >= 1
    /\ (last.op = "delete" /\ Len(last.prev) = 1) => trades = last.prev

C1_Witness ==
    /\ last.op = "delete"
    /\ Len(last.prev) = 1
    /\ last.id = last.prev[1].id
    /\ steps >= 3

\* Texts of the edit fields that do not read as a finite number.
NonFiniteTexts == {Chars("abc"), Chars("1e999"), Chars("Infinity"), <<>>}

\* C2: every stored trade has a finite amount and a finite price; an amount or
\* price edit whose text is not a finite number stores 0; the rows of an
\* imported file whose amount or price does not resolve to a finite number
\* (the row with quantity 0 and the row whose total / quantity overflows in
\* FileMixed) are not stored.
C2_AmountsAndPricesFinite ==
    /\ \A i \in 1..Len(trades) : isFinite(trades[i].amount) /\ isFinite(trades[i].price)
    /\ (last.op = "amount" /\ last.text \in NonFiniteTexts) =>
           \A i \in 1..Len(trades) : trades[i].id = last.id => trades[i].amount = Zero
    /\ (last.op = "price" /\ last.text \in NonFiniteTexts) =>
           \A i \in 1..Len(trades) : trades[i].id = last.id => trades[i].price = Zero
    /\ (last.op = "import" /\ last.text = FileMixed) => Len(Appended) = 2

C2_Witness ==
    /\ last.op = "import"
    /\ last.text = FileMixed
    /\ \E i \in 1..Len(trades) : trades[i].amountInput = Chars("1e999") /\ trades[i].amount = Zero

\* The running sum of amount * price over the trades of one type, in list order.
RECURSIVE SumGross(_, _)
SumGross(list, type) ==
    IF list = <<>> THEN Zero
    ELSE IF list[Len(list)].type = type
    THEN fAdd(SumGross(SubSeq(list, 1, Len(list) - 1), type),
              fMul(list[Len(list)].amount, list[Len(list)].price))
    ELSE SumGross(SubSeq(list, 1, Len(list) - 1), type)

\* C3: totalBuy and totalSell are the sums of amount * price over the buy and
\* the sell trades, profit = totalSell - totalBuy, taxable = max(0, profit -
\* 2,500,000) and tax = taxable * 0.22, whatever the profit.
C3_TotalsFormulas ==
    res.done =>
        /\ res.out.totalBuy = SumGross(arg, "buy")
        /\ res.out.totalSell = SumGross(arg, "sell")
        /\ res.out.profit = fSub(res.out.totalSell, res.out.totalBuy)
        /\ res.out.taxable = MathMax(Zero, fSub(res.out.profit, Num(2500000, 0)))
        /\ res.out.tax = fMul(res.out.taxable, Num(22, -2))

C3_Witness ==
    /\ res.done
    /\ Len(arg) = 2
    /\ arg[1].type = "buy" /\ arg[2].type = "sell"
    /\ isFinite(res.out.tax)
    /\ fGt(res.out.taxable, Zero)
    /\ fGt(res.out.totalBuy, Zero)

\* C4: with a profit <= 0 the tax is 0 and netAfterTax is the profit; with a
\* profit > 0, netAfterTax = max(0, profit - tax).
C4_NetAfterTax ==
    res.done =>
        /\ fLe(res.out.profit, Zero) =>
               res.out.tax = Zero /\ res.out.netAfterTax = res.out.profit
        /\ fGt(res.out.profit, Zero) =>
               res.out.netAfterTax = MathMax(Zero, fSub(res.out.profit, res.out.tax))

C4_Witness ==
    /\ res.done
    /\ isFinite(res.out.profit)
    /\ fGt(Zero, res.out.profit)
    /\ res.out.netAfterTax = res.out.profit

\* C5: the downloaded template is a 3-line file whose import gives exactly the
\* two trades (buy, 1, 500000) and (sell, 0.5, 600000), in this order.
C5_TemplateRoundTrip ==
    (last.op = "import" /\ downloaded # Undefined /\ last.text = downloaded) =>
        /\ NonBlankLineCount(downloaded) = 3
        /\ Figures(Appended) =
               <<Fig("buy", Num(1, 0), Num(500000, 0)), Fig("sell", Num(5, -1), Num(600000, 0))>>

\* The number a case gives for a field: NaN when it has no such column.
CaseVal(c, role) ==
    IF \E i \in 1..Len(c) : c[i].role = role
    THEN c[CHOOSE i \in 1..Len(c) : c[i].role = role].val
    ELSE NaN
\* A header name that more than one field's candidates match.
Ambiguous(c) == \E i \in 1..Len(c) : c[i].name = Chars("amount(krw)")

ExpectedPrice(amount, price, total) ==
    IF isFinite(price) /\ fGt(price, Zero) THEN price
    ELSE IF isFinite(total) /\ isFinite(amount) /\ fGt(amount, Zero) THEN fDiv(total, amount)
    ELSE NaN

CaseOutcome(c, out, amount, price) ==
    IF isFinite(amount) /\ isFinite(price)
    THEN Len(out) = 1 /\ out[1].amount = amount /\ out[1].price = price
    ELSE out = <<>>

FillTotalCase(quantity) ==
    <<[role |-> "total", name |-> Chars("Fill Total"), text |-> Chars("\"1,000\""),
       val |-> Num(1000, 0)],
      [role |-> "amount", name |-> Chars("Quantity"), text |-> quantity.text,
       val |-> quantity.val],
      [role |-> "type", name |-> Chars("Side"), text |-> Chars("BUY"), val |-> NaN]>>

\* C6: the price of a row is its price cell when that is finite and > 0;
\* otherwise total / amount when the total is finite and the amount is finite
\* and > 0; otherwise the row is rejected. With the header Fill Total,
\* Quantity, Side the price is total / quantity, and a quantity of 0 rejects
\* the row.
C6_PriceResolution ==
    res.done =>
        /\ ~Ambiguous(arg) =>
               CaseOutcome(arg, res.out, CaseVal(arg, "amount"),
                           ExpectedPrice(CaseVal(arg, "amount"), CaseVal(arg, "price"),
                                         CaseVal(arg, "total")))
        /\ arg = FillTotalCase(Cell("2", Num(2, 0))) =>
               Len(res.out) = 1 /\ res.out[1].price = Num(500, 0)
        /\ arg = FillTotalCase(Cell("0", Zero)) => res.out = <<>>

C6_Witness ==
    /\ res.done
    /\ arg = FillTotalCase(Cell("2", Num(2, 0)))
    /\ Figures(res.out) = <<Fig("buy", Num(2, 0), Num(500, 0))>>

Perms(n) == {f \in [1..n -> 1..n] : \A i, j \in 1..n : i # j => f[i] # f[j]}
Permuted(c, f) == [i \in 1..Len(c) |-> c[f[i]]]

\* C7: permuting the header cells and the row's cells alike changes neither
\* whether the row is accepted nor the trade's date, type, amount and price.
C7_ColumnOrderIndependent ==
    res.done =>
        \A f \in Perms(Len(arg)) : parseCsvToTrades(CsvOf(Permuted(arg, f)), 1) = res.out

\* Positions of a line by the number of quote characters before them.
QuotesBefore(line, i) == Cardinality({j \in 1..(i - 1) : line[j] = "\""})
OutsideQuotes(line, i) == QuotesBefore(line, i) % 2 = 0
\* How many times a character occurs in the fields of a result.
Occurrences(fields, ch) ==
    Cardinality({p \in (1..Len(fields)) \X (1..(MaxLineLen + 16)) :
        p[2] <= Len(fields[p[1]]) /\ fields[p[1]][p[2]] = ch})
\* A quote character that starts a run of quotes.
RunStart(line, i) == line[i] = "\"" /\ (i = 1 \/ line[i - 1] # "\"")
RunLength(line, i) ==
    Cardinality({j \in i..Len(line) : \A h \in i..j : line[h] = "\""})
\* Every doubled quote of the line is inside a quoted field.
DoubledOnlyInside(line) ==
    \A i \in 1..Len(line) : (RunStart(line, i) /\ OutsideQuotes(line, i)) => RunLength(line, i) = 1
RECURSIVE SumOver(_, _)
SumOver(S, f) ==
    IF S = {} THEN 0 ELSE LET x == CHOOSE y \in S : TRUE IN f[x] + SumOver(S \ {x}, f)
EscapedCount(line) ==
    SumOver({i \in 1..Len(line) : RunStart(line, i)},
            [i \in 1..Len(line) |-> RunLength(line, i) \div 2])
Trimmed(field) ==
    field = <<>> \/ (field[1] \notin WhiteChars /\ field[Len(field)] \notin WhiteChars)

\* C8: a comma separates fields exactly when it is outside quotes, a comma
\* inside quotes stays in its field, a doubled quote inside a quoted field
\* gives one quote character, and every field is trimmed; the two example
\* lines give [a, "b,c", d] and [a, 'b"c', d].
C8_Tokenizer ==
    res.done =>
        /\ Len(res.out) =
               1 + Cardinality({i \in 1..Len(arg) : arg[i] = "," /\ OutsideQuotes(arg, i)})
        /\ Occurrences(res.out, ",") =
               Cardinality({i \in 1..Len(arg) : arg[i] = "," /\ ~OutsideQuotes(arg, i)})
        /\ DoubledOnlyInside(arg) => Occurrences(res.out, "\"") = EscapedCount(arg)
        /\ \A f \in 1..Len(res.out) : Trimmed(res.out[f])
        /\ arg = ExampleCommaInQuotes => res.out = <<Chars("a"), Chars("b,c"), Chars("d")>>
        /\ arg = ExampleDoubledQuote => res.out = <<Chars("a"), Chars("b\"c"), Chars("d")>>

C8_Witness ==
    /\ res.done
    /\ arg = ExampleDoubledQuote
    /\ res.out = <<Chars("a"), Chars("b\"c"), Chars("d")>>

\* C9: an import of a text with fewer than 2 non-blank lines leaves the trade
\* list as it found it and sets the "no readable rows" message.
C9_NoDataLines ==
    (last.op = "import" /\ NonBlankLineCount(last.text) < 2) =>
        trades = last.prev /\ importMessage = NoRowsMessage

C9_Witness ==
    /\ last.op = "import"
    /\ last.text = FileHeaderOnly
    /\ importMessage = NoRowsMessage
    /\ Len(last.prev) = 2

\* The trades the data lines of a file stand for, in file order.
ExpectedRows(text) ==
    IF text = FileMixed
    THEN <<Fig("buy", Num(2, 0), Num(500000, 0)), Fig("sell", Num(2, 0), Num(35, -1))>>
    ELSE IF text = FileNumericHeader THEN <<Fig("sell", Num(1, 0), Num(2, 0))>>
    ELSE IF text = FileDated THEN <<Fig("buy", Num(3, 0), Num(10, 0))>>
    ELSE <<>>

IdsOf(list) == {list[i].id : i \in 1..Len(list)}

\* C10: an import that accepts at least one row puts one new trade per
\* accepted data line, in file order, after the trades already listed, which
\* keep their places and fields; the header and the rejected lines give no
\* trade; the message counts the trades added.
C10_ImportAppends ==
    last.op = "import" =>
        /\ Len(trades) >= Len(last.prev)
        /\ SubSeq(trades, 1, Len(last.prev)) = last.prev
        /\ last.text \in {FileMixed, FileNumericHeader} =>
               Figures(Appended) = ExpectedRows(last.text)
        /\ Len(Appended) > 0 => importMessage = AddedMessage(Len(Appended))
        /\ Cardinality(IdsOf(trades)) = Len(trades)

C10_Witness ==
    /\ last.op = "import"
    /\ last.text = FileMixed
    /\ importMessage = AddedMessage(2)
    /\ Len(last.prev) = 1
    /\ last.prev[1].amountInput # <<>>
\* C12: every stored trade has amount >= 0 and price >= 0, whatever text is
\* typed into the amount and price fields and whatever cells a CSV row carries.
C12_NonNegative ==
    \A i \in 1..Len(trades) :
        /\ ~fGt(Zero, trades[i].amount)
        /\ ~fGt(Zero, trades[i].price)

\* The keywords of a buy, and a text that contains one of them in any case.
BuyKeywords ==
    {<<"U+B9E4", "U+C218">>, <<"b", "i", "d">>, <<"b", "u", "y">>, <<"U+C785", "U+AE08">>,
     <<"d", "e", "p", "o", "s", "i", "t">>}
SameLetter(c, l) == c = l \/ \E k \in 1..26 : Upper[k] = c /\ Lower[k] = l
HasKeywordAt(cell, w, i) ==
    /\ i + Len(w) - 1 <= Len(cell)
    /\ \A j \in 1..Len(w) : SameLetter(cell[i + j - 1], w[j])
IsBuyText(cell) == \E w \in BuyKeywords : \E i \in 1..Len(cell) : HasKeywordAt(cell, w, i)

\* C13: a type cell is classified buy exactly when, lower-cased, it contains
\* one of the keywords; SELL, an empty cell, an absent cell and any other label
\* are classified sell.
C13_TypeClassification ==
    res.done =>
        /\ res.out \in {"buy", "sell"}
        /\ res.out = "buy" <=> (arg # Undefined /\ IsBuyText(arg))
        /\ arg \in {Undefined, <<>>, Chars("SELL"), Chars("ask")} => res.out = "sell"
        /\ arg = <<"U+B9E4", "U+C218">> => res.out = "buy"

C13_Witness ==
    /\ res.done
    /\ arg = Chars("Bid")
    /\ res.out = "buy"

\* The number of quote characters a line gives when two adjacent quotes stand
\* for a quote only inside quotes, and any other quote toggles the flag.
RECURSIVE QuotesEmitted(_, _, _)
QuotesEmitted(line, i, inside) ==
    IF i > Len(line) THEN 0
    ELSE IF line[i] = "\"" /\ inside /\ i < Len(line) /\ line[i + 1] = "\""
    THEN 1 + QuotesEmitted(line, i + 2, inside)
    ELSE IF line[i] = "\"" THEN QuotesEmitted(line, i + 1, ~inside)
    ELSE QuotesEmitted(line, i + 1, inside)

\* C14: two adjacent quotes give a quote character only when met inside
\* quotes; a quote met outside quotes toggles the flag and gives no character,
\* so a,"",b gives three fields, the middle one empty, and no quote character.
C14_EscapedQuoteRule ==
    res.done =>
        /\ Occurrences(res.out, "\"") = QuotesEmitted(arg, 1, FALSE)
        /\ arg = ExampleEmptyQuoted => res.out = <<Chars("a"), <<>>, Chars("b")>>

\* The text a case gives for a field: Undefined when it has no such column.
CaseText(c, role) ==
    IF \E i \in 1..Len(c) : c[i].role = role
    THEN c[CHOOSE i \in 1..Len(c) : c[i].role = role].text
    ELSE Undefined
\* Date cells that are not a calendar date.
UnparseableDates == {Chars("soon"), Chars("sometime later")}
IsIsoDate(d) ==
    /\ Len(d) = 10
    /\ d[5] = "-" /\ d[8] = "-"
    /\ \A i \in {1, 2, 3, 4, 6, 7, 9, 10} : d[i] \in DigitChars

\* C15: every trade an import creates has a date of the form YYYY-MM-DD; when
\* the row has no date cell, or one that is not a calendar date, the date is
\* the day of the import.
C15_ImportDateForm ==
    res.done =>
        \A i \in 1..Len(res.out) :
            /\ IsIsoDate(res.out[i].date)
            /\ CaseText(arg, "date") \in {Undefined} \cup UnparseableDates =>
                   res.out[i].date = Today

\* Every list that is or has been the committed trade list.
CommittedLists == {trades} \cup {log[i].prev : i \in 1..Len(log)}

\* C17: the displayed totalBuy, totalSell, profit, taxable, tax and netAfterTax
\* are the figures of one list, and that list is the committed list or was the
\* committed list at an earlier moment.
C17_SnapshotConsistency ==
    /\ deferredTrades \in CommittedLists
    /\ \E list \in CommittedLists :
           /\ displayed.totalBuy = totals(list).totalBuy
           /\ displayed.totalSell = totals(list).totalSell
           /\ displayed.profit = totals(list).profit
           /\ displayed.taxable = totals(list).taxable
           /\ displayed.tax = totals(list).tax
           /\ displayed.netAfterTax = netAfterTax(totals(list))

C17_Witness ==
    /\ Len(log) >= 2
    /\ deferredTrades # trades
    /\ deferredTrades # last.prev
    /\ displayed.totalBuy # totals(trades).totalBuy
    /\ displayed.totalBuy # totals(last.prev).totalBuy

\* The list the i-th update found and the list it left.
Before(i) == log[i].prev
After(i) == IF i = Len(log) THEN trades ELSE log[i + 1].prev
IdSeq(list) == [j \in 1..Len(list) |-> list[j].id]
Added(i) == SubSeq(After(i), Len(Before(i)) + 1, Len(After(i)))

\* The rows other than the edited one are as before, and the edited row
\* differs from what it was in the edited fields only.
EditedOnly(e, before, after, fields) ==
    /\ Len(after) = Len(before)
    /\ \A j \in 1..Len(before) :
           IF before[j].id = e.id
           THEN \A f \in DOMAIN before[j] \ fields : after[j][f] = before[j][f]
           ELSE after[j] = before[j]
RowHas(list, id, field, text) ==
    \A j \in 1..Len(list) : list[j].id = id => list[j][field] = text

\* What an update makes of the list it finds.
AppliedTo(e, before, after) ==
    IF e.op = "add"
    THEN /\ Len(after) = Len(before) + 1
         /\ SubSeq(after, 1, Len(before)) = before
         /\ after[Len(after)].id \notin IdsOf(before)
    ELSE IF e.op = "delete"
    THEN IF Len(before) = 1 THEN after = before
         ELSE after = SelectSeq(before, LAMBDA t : t.id # e.id)
    ELSE IF e.op = "amount"
    THEN EditedOnly(e, before, after, {"amount", "amountInput"})
             /\ RowHas(after, e.id, "amountInput", e.text)
    ELSE IF e.op = "price"
    THEN EditedOnly(e, before, after, {"price", "priceInput"})
             /\ RowHas(after, e.id, "priceInput", e.text)
    ELSE IF e.op = "date"
    THEN EditedOnly(e, before, after, {"date"}) /\ RowHas(after, e.id, "date", e.text)
    ELSE IF e.op = "type"
    THEN EditedOnly(e, before, after, {"type"})
             /\ \A j \in 1..Len(after) : after[j].id = e.id => Chars(after[j].type) = e.text
    ELSE /\ Len(after) >= Len(before)
         /\ SubSeq(after, 1, Len(before)) = before
         /\ e.text \in {FileMixed, FileNumericHeader, FileDated} =>
                Figures(SubSeq(after, Len(before) + 1, Len(after))) = ExpectedRows(e.text)

\* The ids of the imported trades, block after block in read-completion order.
RECURSIVE ImportedIds(_)
ImportedIds(n) ==
    IF n = 0 THEN <<>>
    ELSE IF log[n].op = "import" THEN ImportedIds(n - 1) \o IdSeq(Added(n))
    ELSE ImportedIds(n - 1)
Among(ids, S) == SelectSeq(ids, LAMBDA id : id \in S)
Range(seq) == {seq[j] : j \in 1..Len(seq)}
NoLater(i, ops, id) ==
    \A j \in (i + 1)..Len(log) : ~(log[j].op \in ops /\ (log[j].op = "delete" \/ log[j].id = id))

\* C16: each update of the trade list is applied to the list the previous
\* update left, so an edit, add or delete made while files are being read is
\* still reflected once the imports have completed, the trades of every
\* completed import are present unless deleted since, and the imports' blocks
\* stand in the list in read-completion order.
C16_NoLostUpdate ==
    /\ \A i \in 1..Len(log) : AppliedTo(log[i], Before(i), After(i))
    /\ \A i \in 1..Len(log) :
           (log[i].op = "amount" /\ NoLater(i, {"amount", "delete"}, log[i].id)) =>
               \E j \in 1..Len(trades) :
                   trades[j].id = log[i].id /\ trades[j].amountInput = log[i].text
    /\ Among(IdSeq(trades), Range(ImportedIds(Len(log))))
           = Among(ImportedIds(Len(log)), RowIds)
    /\ (\A i \in 1..Len(log) : log[i].op # "delete") =>
           Range(ImportedIds(Len(log))) \subseteq RowIds

C16_Witness ==
    /\ Len(log) = 3
    /\ log[1].op = "import" /\ log[1].text = FileDated
    /\ log[2].op = "amount" /\ log[2].id = 1 /\ log[2].text = Chars("2")
    /\ log[3].op = "import" /\ log[3].text = FileNumericHeader
    /\ reading = <<>>
    /\ Figures(trades) =
           <<Fig("buy", Num(2, 0), Zero), Fig("buy", Num(3, 0), Num(10, 0)),
             Fig("sell", Num(1, 0), Num(2, 0))>>

\* C11: in every behaviour in which the trade list stops changing, the
\* displayed totals eventually are, and from then on stay, the aggregation of
\* the trade list; and whenever the deferred list changes it becomes the
\* committed list.
C11_TotalsConverge ==
    /\ (<>[][trades' = trades]_vars) =>
           <>[](deferredTrades = trades /\ displayed = summary(trades))
    /\ [][deferredTrades' # deferredTrades => deferredTrades' = trades']_vars

C11_Witness ==
    /\ steps = MaxSteps
    /\ Len(log) >= 2
    /\ trades # last.prev
    /\ deferredTrades = trades
    /\ displayed = summary(trades)
    /\ displayed # summary(last.prev)

=============================================================================
